---------------------------- MODULE Spec2Model ----------------------------
(***************************************************************************)
(* One invocation of the playlist formatter command line tool:            *)
(* run_playlist_formatter_cli and main of src/main.rs, together with the  *)
(* Playlist operations they call (mod playlist, mod utils), which are     *)
(* modelled from the design document.                                     *)
(*                                                                         *)
(* A path and a line of text are sequences of one-character / one-token   *)
(* strings.  Option<T> is a sequence of length 0 (None) or 1 (Some).      *)
(***************************************************************************)
EXTENDS Integers, Sequences, FiniteSets, TLC

\* ------------------------------------------------------------------ bounds

\* Longest raw playlist file, in lines.
MaxLines == 2

\* ------------------------------------------------------------------ values

None == <<>>

Some(x) == <<x>>

IsSome(o) == Len(o) = 1

Unwrap(o) == o[1]

Styles == {"Basic", "Numbered", "Pretty"}

\* File arguments tried: empty, blank, a path, the same path padded, another.
FileArgs == {<<>>, <<" ">>, <<"a">>, <<" ", "a", " ">>, <<"b">>}

\* Output paths tried: a separate file, and the source file itself.
OutputArgs == {<<"o">>, <<"a">>}

\* Suffix of the generated file name.
Suffix == <<"_", "f">>

DefaultName(src) == src \o Suffix

Paths == {<<"a">>, <<"b">>, <<"o">>, DefaultName(<<"a">>)}

\* Raw lines a playlist file is made of: a whitespace line and two tracks.
RawLines == {<<" ">>, <<"Artist", "-", "Title">>, <<"Other", "-", "Song">>}

RECURSIVE SeqsUpTo(_, _)
SeqsUpTo(S, n) ==
    IF n = 0 THEN {<<>>}
    ELSE LET shorter == SeqsUpTo(S, n - 1)
         IN  shorter \cup {Append(s, x) : s \in {t \in shorter : Len(t) = n - 1}, x \in S}

Contents == SeqsUpTo(RawLines, MaxLines)

OldContent == << <<"old">> >>

Absent == [kind |-> "absent", content |-> <<>>]

Dir == [kind |-> "dir", content |-> <<>>]

File(c) == [kind |-> "file", content |-> c]

\* ---------------------------------------------------------------- str::trim

RECURSIVE TrimStart(_)
TrimStart(s) ==
    IF s # <<>> /\ Head(s) = " " THEN TrimStart(Tail(s)) ELSE s

RECURSIVE TrimEnd(_)
TrimEnd(s) ==
    IF s # <<>> /\ s[Len(s)] = " " THEN TrimEnd(SubSeq(s, 1, Len(s) - 1)) ELSE s

Trim(s) == TrimEnd(TrimStart(s))

\* ------------------------------------------------------------------- state

VARIABLES
    args,        \* the parsed command line (struct Args)
    fs,          \* the file system: path -> entry
    fs0,         \* the file system when the run started
    readable,    \* whether the source file can be read and decoded
    pc,          \* position in main / run_playlist_formatter_cli
    style,       \* the local `style`; "unset" before it is bound
    formatter,   \* the local `formatter`: Option<Playlist>
    stdout,      \* what was printed to the terminal, in order
    saveCalls,   \* the calls of save_playlist_to_file made, in order
    result,      \* the Result returned by run_playlist_formatter_cli
    exitCode     \* the process exit status; -1 while running

vars == <<args, fs, fs0, readable, pc, style, formatter, stdout, saveCalls, result, exitCode>>

NoResult == [kind |-> "none", path |-> <<>>]

Ok == [kind |-> "Ok", path |-> <<>>]

Err(k, p) == [kind |-> k, path |-> p]

\* Configurations the argument layer accepts: clap's conflicts_with rules.
ArgsAccepted(a) ==
    /\ ~(a.basic /\ a.numbered)
    /\ ~(IsSome(a.output) /\ IsSome(a.save))

ArgSpace ==
    [file : FileArgs,
     output : {None} \cup {Some(p) : p \in OutputArgs},
     force : BOOLEAN,
     basic : BOOLEAN,
     numbered : BOOLEAN,
     save : {None, Some(None)} \cup {Some(Some(p)) : p \in OutputArgs}]

FsSpace ==
    {[p \in Paths |->
        IF p = <<"a">> THEN ea
        ELSE IF p = <<"b">> THEN eb
        ELSE IF p = <<"o">> THEN eo
        ELSE ed] :
        ea \in {Absent, Dir} \cup {File(c) : c \in Contents},
        eb \in {Absent, Dir},
        eo \in {Absent, File(OldContent)},
        ed \in {Absent, File(OldContent)}}

Init ==
    /\ args \in {a \in ArgSpace : ArgsAccepted(a)}
    /\ fs \in FsSpace
    /\ fs0 = fs
    /\ readable \in BOOLEAN
    /\ pc = "validate"
    /\ style = "unset"
    /\ formatter = None
    /\ stdout = <<>>
    /\ saveCalls = <<>>
    /\ result = NoResult
    /\ exitCode = -1

\* ------------------------------------------------- Playlist (mod playlist)

\* parse_line: a line that trims to nothing is no track.
ParseLine(raw) ==
    LET t == Trim(raw) IN IF t = <<>> THEN None ELSE Some(t)

RECURSIVE ParseLines(_)
ParseLines(lines) ==
    IF lines = <<>> THEN <<>>
    ELSE ParseLine(Head(lines)) \o ParseLines(Tail(lines))

\* Playlist::new: Some(playlist), or None for ParseError::Io.
PlaylistNew(path, f, canRead) ==
    IF f[path].kind = "file" /\ canRead
    THEN Some([path |-> path, tracks |-> ParseLines(f[path].content)])
    ELSE None

\* Width at which position numbers are right-aligned.
AlignFrom == 10

NumberedLine(tracks, i) ==
    (IF Len(tracks) >= AlignFrom /\ i < AlignFrom THEN <<" ">> ELSE <<>>)
        \o <<ToString(i), ".">> \o tracks[i]

\* render(playlist, style): the display lines.
Render(pl, s) ==
    LET numbered == [i \in 1..Len(pl.tracks) |-> NumberedLine(pl.tracks, i)]
    IN  IF s = "Basic" THEN pl.tracks
        ELSE IF s = "Numbered" THEN numbered
        ELSE << <<"#", "TRACK">>, <<"---">> >> \o numbered

\* print_info: the info block.
InfoBlock(pl) ==
    << <<"file">> \o pl.path, <<"tracks", ToString(Len(pl.tracks))>> >>

\* The save target: the path given, else a name derived from the source.
ResolveTarget(pl, pathOpt) ==
    IF IsSome(pathOpt) THEN Unwrap(pathOpt) ELSE DefaultName(pl.path)

\* save_playlist_to_file(path, force).  The caller hands over no style, so
\* `s` is the style the operation itself renders with.
SavePlaylistToFile(pl, pathOpt, force, f, writeOk, s) ==
    LET target == ResolveTarget(pl, pathOpt)
    IN  IF f[target].kind # "absent" /\ ~force
        THEN [fs |-> f, result |-> Err("AlreadyExists", target), target |-> target]
        ELSE IF f[target].kind = "dir" \/ ~writeOk
        THEN [fs |-> f, result |-> Err("PersistIo", target), target |-> target]
        ELSE [fs |-> [f EXCEPT ![target] = File(Render(pl, s))],
              result |-> Ok, target |-> target]

\* ------------------------------------------- run_playlist_formatter_cli

\* let input_file = args.file.trim();
InputFile(a) == Trim(a.file)

\* Path::is_file
IsFile(f, p) == p \in DOMAIN f /\ f[p].kind = "file"

\* Variant: the is_file check is left out.
InputError_NoFileCheck(a, f) ==
    IF InputFile(a) = <<>> THEN "EmptyInput" ELSE "none"

\* The two bail! checks on the file argument: the error, or "none".
InputError(a, f) ==
    IF InputFile(a) = <<>> THEN "EmptyInput"
    ELSE IF ~IsFile(f, InputFile(a)) THEN "NotAFile"
    ELSE "none"

\* Variant: the fall-through arm selects Numbered.
SelectStyle_DefaultNumbered(a) ==
    IF a.basic THEN "Basic" ELSE "Numbered"

\* let style = if args.basic {..} else if args.numbered {..} else {..};
SelectStyle(a) ==
    IF a.basic THEN "Basic"
    ELSE IF a.numbered THEN "Numbered"
    ELSE "Pretty"

\* Variant: the info block is shown for every style but Basic.
ShowsInfo_NotBasic(s) == s # "Basic"

\* if style == FormattingStyle::Pretty
ShowsInfo(s) == s = "Pretty"

\* Variant: the `else if args.output.is_some()` arm is missing.
SaveRequest_SaveOnly(a) ==
    IF IsSome(a.save) THEN Some(Unwrap(a.save)) ELSE None

\* Variant: the output arm calls the save operation without the path.
SaveRequest_DropOutputPath(a) ==
    IF IsSome(a.save) THEN Some(Unwrap(a.save))
    ELSE IF IsSome(a.output) THEN Some(None)
    ELSE None

\* The path argument of the save call, if a save call is made:
\* None (no call), Some(None) (call, no path), Some(Some(p)).
SaveRequest(a) ==
    IF IsSome(a.save) THEN Some(Unwrap(a.save))
    ELSE IF IsSome(a.output) THEN Some(a.output)
    ELSE None

\* Variant: the save call is made with force = true.
ForceArg_Always(a) == TRUE

\* The force argument of the save call.
ForceArg(a) == a.force

\* Variant: main drops the Result and returns Ok(()).
ExitCode_AlwaysZero(r) == 0

\* main returns the Result: Ok(()) exits 0, Err exits 1.
ExitCode(r) == IF r.kind = "Ok" THEN 0 ELSE 1

ValidateInput ==
    /\ pc = "validate"
    /\ LET e == InputError(args, fs)
       IN  IF e # "none"
           THEN /\ result' = Err(e, InputFile(args))
                /\ pc' = "exit"
           ELSE /\ pc' = "style"
                /\ UNCHANGED result
    /\ UNCHANGED <<args, fs, fs0, readable, style, formatter, stdout, saveCalls, exitCode>>

ChooseStyle ==
    /\ pc = "style"
    /\ style' = SelectStyle(args)
    /\ pc' = "new"
    /\ UNCHANGED <<args, fs, fs0, readable, formatter, stdout, saveCalls, result, exitCode>>

\* Variant: Playlist::new(filepath).unwrap_or_default() instead of `?`.
NewPlaylist_Swallow ==
    /\ pc = "new"
    /\ LET r == PlaylistNew(InputFile(args), fs, readable)
       IN  formatter' = IF IsSome(r) THEN r
                        ELSE Some([path |-> InputFile(args), tracks |-> <<>>])
    /\ pc' = "info"
    /\ UNCHANGED <<args, fs, fs0, readable, style, stdout, saveCalls, result, exitCode>>

\* let formatter = Playlist::new(filepath)?;
NewPlaylist ==
    /\ pc = "new"
    /\ LET r == PlaylistNew(InputFile(args), fs, readable)
       IN  IF IsSome(r)
           THEN /\ formatter' = r
                /\ pc' = "info"
                /\ UNCHANGED result
           ELSE /\ result' = Err("ParseIo", InputFile(args))
                /\ pc' = "exit"
                /\ UNCHANGED formatter
    /\ UNCHANGED <<args, fs, fs0, readable, style, stdout, saveCalls, exitCode>>

PrintInfo ==
    /\ pc = "info"
    /\ stdout' = IF ShowsInfo(style)
                 THEN Append(stdout, [kind |-> "info", text |-> InfoBlock(Unwrap(formatter))])
                 ELSE stdout
    /\ pc' = "print"
    /\ UNCHANGED <<args, fs, fs0, readable, style, formatter, saveCalls, result, exitCode>>

\* Variant: the playlist is printed only when it is not saved.
PrintPlaylist_UnlessSaving ==
    /\ pc = "print"
    /\ stdout' = IF IsSome(SaveRequest(args)) THEN stdout
                 ELSE Append(stdout, [kind |-> "playlist",
                                      text |-> Render(Unwrap(formatter), style)])
    /\ pc' = "save"
    /\ UNCHANGED <<args, fs, fs0, readable, style, formatter, saveCalls, result, exitCode>>

\* formatter.print_playlist(style);
PrintPlaylist ==
    /\ pc = "print"
    /\ stdout' = Append(stdout, [kind |-> "playlist",
                                 text |-> Render(Unwrap(formatter), style)])
    /\ pc' = "save"
    /\ UNCHANGED <<args, fs, fs0, readable, style, formatter, saveCalls, result, exitCode>>

\* if let Some(save_arg) = args.save {..} else if args.output.is_some() {..}
SavePlaylist ==
    /\ pc = "save"
    /\ LET req == SaveRequest(args)
       IN  IF IsSome(req)
           THEN \E writeOk \in BOOLEAN, s \in Styles :
                  LET out == SavePlaylistToFile(Unwrap(formatter), Unwrap(req),
                                                ForceArg(args), fs, writeOk, s)
                  IN  /\ saveCalls' = Append(saveCalls,
                             [path |-> Unwrap(req), force |-> ForceArg(args),
                              target |-> out.target,
                              existed |-> fs[out.target].kind # "absent",
                              printed |-> stdout,
                              result |-> out.result])
                      /\ fs' = out.fs
                      /\ result' = out.result
           ELSE /\ result' = Ok
                /\ UNCHANGED <<fs, saveCalls>>
    /\ pc' = "exit"
    /\ UNCHANGED <<args, fs0, readable, style, formatter, stdout, exitCode>>

\* main: the process exits with the status of the returned Result.
Exit ==
    /\ pc = "exit"
    /\ exitCode' = ExitCode(result)
    /\ pc' = "done"
    /\ UNCHANGED <<args, fs, fs0, readable, style, formatter, stdout, saveCalls, result>>

Next ==
    \/ ValidateInput
    \/ ChooseStyle
    \/ NewPlaylist
    \/ PrintInfo
    \/ PrintPlaylist
    \/ SavePlaylist
    \/ Exit

Spec == Init /\ [][Next]_vars

\* ------------------------------------------------------------- properties

Done == pc = "done"

\* The positions in stdout of the events of one kind.
Events(kind) == {j \in DOMAIN stdout : stdout[j].kind = kind}

\* The file argument names an existing regular file, read off the state.
InputValid ==
    /\ Trim(args.file) # <<>>
    /\ Trim(args.file) \in Paths
    /\ fs0[Trim(args.file)].kind = "file"

\* A save was asked for on the command line.
SaveAsked == args.save # None \/ args.output # None

\* The run got as far as the save step.
ReachedSave == pc \in {"exit", "done"} /\ Events("playlist") # {}

\* C1: a save whose target exists, made without --force, ends in
\* AlreadyExists naming the target, writes nothing and leaves every file as
\* it was; the force value the save call gets is the command line's.
C1_NoOverwriteWithoutForce ==
    \A i \in DOMAIN saveCalls :
        LET c == saveCalls[i]
        IN  /\ c.force = args.force
            /\ (c.existed /\ ~args.force) =>
                  /\ c.result = Err("AlreadyExists", c.target)
                  /\ result = c.result
                  /\ fs = fs0

C1_Witness ==
    /\ Done
    /\ Len(saveCalls) = 1
    /\ saveCalls[1].existed
    /\ ~args.force
    /\ fs0[saveCalls[1].target] = File(OldContent)

\* C2: the text a successful save wrote is the text print_playlist printed
\* in the same run, for every style and every playlist.
C2_SavedEqualsPrinted ==
    \A i \in DOMAIN saveCalls :
        saveCalls[i].result = Ok =>
            \E j \in Events("playlist") :
                fs[saveCalls[i].target] = File(stdout[j].text)

C4_PathFollowsTable ==
    \A i \in DOMAIN saveCalls :
        LET c == saveCalls[i]
        IN  IF args.output # None
            THEN c.path = args.output /\ c.target = args.output[1]
            ELSE IF args.save # None /\ args.save[1] # None
            THEN c.path = args.save[1] /\ c.target = args.save[1][1]
            ELSE c.path = None /\ c.target = DefaultName(Trim(args.file))

C4_Witness ==
    /\ Done
    /\ args.save = Some(None)
    /\ Len(saveCalls) = 1
    /\ saveCalls[1].result = Ok
    /\ fs[DefaultName(<<"a">>)] # fs0[DefaultName(<<"a">>)]

\* C5: with a file argument that is blank after trimming, or that names no
\* existing regular file, the run never constructs a Playlist, prints
\* nothing, makes no save call, and ends in an input error.
C5_InputErrorsBeforeParsing ==
    ~InputValid =>
        /\ pc \in {"validate", "exit", "done"}
        /\ formatter = None
        /\ stdout = <<>>
        /\ saveCalls = <<>>
        /\ fs = fs0
        /\ pc # "validate" => result.kind \in {"EmptyInput", "NotAFile"}
        /\ Done => exitCode # 0

C5_Witness ==
    /\ Done
    /\ args.file = <<" ">>
    /\ result.kind = "EmptyInput"

\* C6: when Playlist construction fails, that error is the run's result,
\* nothing is printed and no save call is made; and a failed save is the
\* run's result too, with nothing printed after it.
C6_FailureAborts ==
    /\ (InputValid /\ ~readable /\ pc \notin {"validate", "style", "new"}) =>
          /\ result = Err("ParseIo", Trim(args.file))
          /\ pc \in {"exit", "done"}
          /\ formatter = None
          /\ stdout = <<>>
          /\ saveCalls = <<>>
          /\ fs = fs0
    /\ \A i \in DOMAIN saveCalls :
          saveCalls[i].result # Ok =>
              /\ result = saveCalls[i].result
              /\ pc \in {"exit", "done"}
              /\ i = Len(saveCalls)
              /\ stdout = saveCalls[i].printed

C6_Witness ==
    /\ Done
    /\ result.kind = "ParseIo"
    /\ args.save # None

C8_StyleSelection ==
    /\ pc \in {"validate", "style"} => style = "unset"
    /\ formatter # None => style # "unset"
    /\ style # "unset" =>
          /\ args.basic => style = "Basic"
          /\ args.numbered => style = "Numbered"
          /\ (~args.basic /\ ~args.numbered) => style = "Pretty"

C8_Witness ==
    /\ Done
    /\ ~args.basic
    /\ ~args.numbered
    /\ style = "Pretty"
    /\ formatter # None

C10_PrintBeforeSave ==
    \A i \in DOMAIN saveCalls :
        LET c == saveCalls[i]
        IN  /\ c.printed # <<>>
            /\ c.printed[Len(c.printed)] =
                  [kind |-> "playlist", text |-> Render(formatter[1], style)]
            /\ stdout = c.printed

C10_Witness ==
    /\ Done
    /\ Len(saveCalls) = 1
    /\ saveCalls[1].result.kind = "AlreadyExists"
    /\ Events("playlist") # {}
    /\ exitCode = 1

=============================================================================
